---- MODULE Spec2Model ----
(***************************************************************************)
(* SNEK multiplayer client: the WebSocket transport client                 *)
(* (src/snek/src/api/websocketClient.js, class WebSocketGameClient) and    *)
(* the session state kept by the Game page component (src/unnamed/part_000)*)
(***************************************************************************)
EXTENDS Integers, Sequences, FiniteSets, TLC

(* ------------------------------ bounds --------------------------------- *)
\* countdown interval timers that can be alive at the same time
MaxIntervals == 2
\* getRoom polls awaiting their result at the same time
MaxPolls == 1
\* startGame requests awaiting their result at the same time
MaxStarts == 1
\* socket objects that can be alive (not yet closed) at the same time
MaxSockets == 2
\* commands handed to send() in one behaviour
MaxMsgs == 2
\* reconnect timers pending at the same time
MaxTimers == 2
\* start cues counted after one start request
MaxCues == 2
\* fallback poll interval timers that can be alive at the same time
MaxPollIds == 2
\* the clock, in ms since the page was loaded, and the ms between two readings
MaxTime == 450
ClockStep == 50
\* Date.now() when the page was loaded (at least a tick interval)
DateAtLoad == 1000
\* gameTick calls scheduled by setTimeout(0) and not yet run
MaxPendingTicks == 1
\* tick-advance requests emitted in one behaviour
MaxTicks == 2
\* callbacks registered on one channel at the same time
MaxListeners == 2
\* participants of a session
MaxPlayers == 3
\* distinct identifiers that connect() can draw
MaxIds == 2

(* -------------------------- program constants -------------------------- *)
maxReconnectAttempts == 10
\* the clamp of the reconnect delay, in ms
MaxDelayMs == 10000
\* Math.random() * 1000: the jitter is in [0, 1000) ms
JitterRangeMs == 1000
\* TICK_RATE, in ms, of a development and of a production build
TickRateDev == 150
TickRateProd == 200
VARIABLES
    \* ---- WebSocketGameClient ----
    sockets,            \* the WebSocket objects not yet closed: slot -> readyState
    ws,                 \* this.ws: a slot, or 0 for null
    connected,          \* this.connected
    reconnectAttempts,  \* this.reconnectAttempts
    messageQueue,       \* this.messageQueue
    pingInterval,       \* this.pingInterval is set (an interval is scheduled)
    pongTimeout,        \* this.pongTimeout is pending
    isProduction,       \* this.isProduction
    timers,             \* reconnect timeouts scheduled by attemptReconnect, pending
    delay,              \* the delay of the latest reconnect timeout, in 1/Scale ms
    wire,               \* the commands written to an open socket, in order
    nextId,             \* the number of the next command passed to send()
    emitted,            \* the events emitted by the latest step
    gaveUp,             \* 'reconnectFailed' has been emitted
    listeners,          \* this.listeners: channel -> the callbacks, in order
    delivered,          \* the <<channel, callback>> calls made for the latest frame
    wsPlayerId,         \* this.playerId: 0 for null, or the identifier drawn
    stamps              \* the playerId of each message built by send(), by id

VARIABLES
    \* ---- Game component ----
    room,                 \* useState room: None or Some(session)
    displayRoom,          \* useState displayRoom
    countdown,            \* useState countdown: None or Some(n)
    isInWaitingLobby,     \* isInWaitingLobbyRef.current
    isStartingGame,       \* isStartingGameRef.current
    pendingRoomUpdate,    \* pendingRoomUpdateRef.current
    listenerRoom,         \* `room` as closed over by the registered broadcast listeners
    listenerDisplayRoom,  \* `displayRoom` as closed over by the same listeners
    intervals,            \* the countdown setInterval timers: id -> timer
    countdownIntervalRef, \* countdownIntervalRef.current: an id, or 0 for null
    polls,                \* getRoom requests of pollRoom awaiting their result
    starts,               \* startGame requests awaiting their result
    playAgain             \* where handlePlayAgain is suspended in its awaits

VARIABLES
    \* ---- Game component: what its effects schedule ----
    pollingRef,     \* pollingRef.current: a poll interval id, or 0 for null
    pollLive,       \* the poll setInterval timers that are scheduled
    renderLoopRef,  \* a frame of renderLoop is requested
    gameLoopRef,    \* a frame of the game loop is requested and isRunning
    lastTickTime,   \* lastTickTime of the running game loop
    startCues       \* soundManager.playStart() calls since the last click on
                    \* start in this session (None before the first click)

VARIABLES
    \* ---- Game component: the tick scheduler ----
    now,            \* performance.now(), in ms
    lastTickRef,    \* lastTickRef.current: 0, or the clock at the latest request
    pendingTicks,   \* gameTick calls scheduled by setTimeout(0): their closures
    ticksSent,      \* wsClient.send('tick') calls made
    lastSentAt,     \* the clock at the latest of them, or None
    directionQueue, \* directionQueueRef.current, or None
    directionSent,  \* the direction handleKeyDown sent at once last, or None
    tickOut         \* the commands the latest gameTick sent, in order

VARIABLES
    \* ---- Game component: the commands of the lobby and the menu ----
    error,          \* the error state: the message displayed, "" for none
    command         \* the command awaited by its handler, or None

VARIABLES
    \* ---- Lobby component ----
    lobbyPlayers,   \* room.players of the snapshot Lobby is rendered with
    lobbyHost,      \* room.host_id of that snapshot, 0 for none
    startTriggered  \* the latest click on the start button called onStart

dispatchVars == <<listeners, delivered>>

idVars == <<wsPlayerId, stamps>>

wsVars == <<sockets, ws, connected, reconnectAttempts, messageQueue, pingInterval,
            pongTimeout, isProduction, timers, delay, wire, nextId, emitted, gaveUp,
            dispatchVars, idVars>>

gameVars == <<room, displayRoom, countdown, isInWaitingLobby, isStartingGame,
              pendingRoomUpdate, listenerRoom, listenerDisplayRoom, intervals,
              countdownIntervalRef, polls, starts, playAgain>>

effectVars == <<pollingRef, pollLive, renderLoopRef, gameLoopRef, lastTickTime,
                startCues>>

lobbyVars == <<lobbyPlayers, lobbyHost, startTriggered>>

inputVars == <<directionQueue, directionSent, tickOut, lobbyVars>>

tickVars == <<now, lastTickRef, pendingTicks, ticksSent, lastSentAt, inputVars>>

commandVars == <<error, command>>

pageVars == <<gameVars, effectVars, tickVars, commandVars>>

vars == <<wsVars, pageVars>>

Slots == 1..MaxSockets

\* Math.random() * 1000, sampled: the least value, a middle one, the greatest
\* whole number of ms
JitterValues == {0, JitterRangeMs \div 2, JitterRangeMs - 1}

(* ----------------------------- helpers --------------------------------- *)
RECURSIVE Pow(_, _)
Pow(b, e) == IF e = 0 THEN 1 ELSE b * Pow(b, e - 1)

Min(a, b) == IF a < b THEN a ELSE b

\* delays are kept in units of 1/Scale ms, so that baseDelay * 1.5^(n-1) is an
\* integer for every attempt n in 1..maxReconnectAttempts
Scale == Pow(2, maxReconnectAttempts - 1)

SeqToSet(s) == {s[i] : i \in 1..Len(s)}

\* this.ws?.readyState === WebSocket.OPEN, with the sockets as given
WsIsOpen(socks, w) == w # 0 /\ socks[w] = "open"

(* ------------------------- WebSocketGameClient ------------------------- *)
\* the callbacks that can be registered, and the channels they are
\* registered on (a broadcast channel and the generic response channel)
ListenerIds == 1..MaxListeners
\* the callback that throws whenever it is called
Throwing == {1}
ListenChannels == {"roomUpdate", "response"}

WsInit ==
    /\ sockets = [s \in Slots |-> "none"]
    /\ ws = 0
    /\ connected = FALSE
    /\ reconnectAttempts = 0
    /\ messageQueue = <<>>
    /\ pingInterval = FALSE
    /\ pongTimeout = FALSE
    /\ isProduction \in BOOLEAN
    /\ timers = 0
    /\ delay = 0
    /\ wire = <<>>
    /\ nextId = 1
    /\ emitted = {}
    /\ gaveUp = FALSE
    /\ listeners = [c \in ListenChannels |-> <<>>]
    /\ delivered = {}
    /\ wsPlayerId = 0
    /\ stamps = <<>>

\* the identifiers `player_${Math.random()...}` can give
PlayerIds == 1..MaxIds

\* a slot for a new WebSocket object
FreeSlot(s) == sockets[s] = "none" /\ \A t \in Slots : sockets[t] = "none" => s <= t

\* baseDelay * 1.5^(n-1), in 1/Scale ms
BackoffBase(prod, n) ==
    (IF prod THEN 2000 ELSE 1000) * Pow(3, n - 1) * (Scale \div Pow(2, n - 1))

ReconnectDelayNoGrowth(prod, n, j) ==
    Min(BackoffBase(prod, 1) + j * Scale, MaxDelayMs * Scale)

\* the delay computed by attemptReconnect for attempt n with jitter j (ms)
ReconnectDelay(prod, n, j) ==
    Min(BackoffBase(prod, n) + j * Scale, MaxDelayMs * Scale)

CanRetryOffByOne == reconnectAttempts <= maxReconnectAttempts

\* attemptReconnect(): the guard of the retry branch
CanRetry == reconnectAttempts < maxReconnectAttempts

\* flushMessageQueue() with this.connected true: every queued command is
\* shifted, and written only if this.ws is open
FlushedWire(socks) ==
    IF WsIsOpen(socks, ws) THEN wire \o messageQueue ELSE wire

\* connect(): a new WebSocket object replaces this.ws
Connect ==
    /\ \E s \in Slots :
         /\ FreeSlot(s)
         /\ sockets' = [sockets EXCEPT ![s] = "connecting"]
         /\ ws' = s
    /\ wsPlayerId' \in PlayerIds
    /\ emitted' = {}
    /\ UNCHANGED <<connected, reconnectAttempts, messageQueue, pingInterval,
                   pongTimeout, isProduction, timers, delay, wire, nextId, gaveUp,
                   stamps, pageVars, dispatchVars>>

\* send(action, params)
Send ==
    /\ nextId <= MaxMsgs
    /\ nextId' = nextId + 1
    /\ emitted' = {}
    /\ stamps' = Append(stamps, wsPlayerId)
    /\ IF connected /\ WsIsOpen(sockets, ws)
       THEN /\ wire' = Append(wire, nextId)
            /\ UNCHANGED <<messageQueue, sockets, ws, wsPlayerId>>
       ELSE /\ messageQueue' = Append(messageQueue, nextId)
            /\ wire' = wire
            /\ IF ~connected
               THEN /\ \E s \in Slots :
                         /\ FreeSlot(s)
                         /\ sockets' = [sockets EXCEPT ![s] = "connecting"]
                         /\ ws' = s
                    /\ wsPlayerId' \in PlayerIds
               ELSE UNCHANGED <<sockets, ws, wsPlayerId>>
    /\ UNCHANGED <<connected, reconnectAttempts, pingInterval, pongTimeout,
                   isProduction, timers, delay, gaveUp,
                   pageVars, dispatchVars>>

\* ws.onopen of the socket in slot s
OnOpen(s) ==
    /\ sockets[s] = "connecting"
    /\ sockets' = [sockets EXCEPT ![s] = "open"]
    /\ connected' = TRUE
    /\ reconnectAttempts' = 0
    /\ wire' = FlushedWire(sockets')
    /\ messageQueue' = <<>>
    /\ emitted' = {"connected"}
    /\ pingInterval' = (IF isProduction THEN TRUE ELSE pingInterval)
    /\ pongTimeout' = (IF isProduction THEN FALSE ELSE pongTimeout)
    /\ UNCHANGED <<ws, isProduction, timers, delay, nextId, gaveUp,
                   pageVars, idVars, dispatchVars>>

\* ws.onclose of the socket in slot s: the connection attempt failed, the
\* connection was lost, or a close() completed
OnClose(s) ==
    /\ sockets[s] # "none"
    /\ sockets' = [sockets EXCEPT ![s] = "none"]
    /\ connected' = FALSE
    /\ pingInterval' = FALSE
    /\ pongTimeout' = FALSE
    /\ IF CanRetry
       THEN /\ timers < MaxTimers
            /\ reconnectAttempts' = reconnectAttempts + 1
            /\ timers' = timers + 1
            /\ \E j \in JitterValues :
                 delay' = ReconnectDelay(isProduction, reconnectAttempts', j)
            /\ emitted' = {"disconnected"}
            /\ gaveUp' = gaveUp
       ELSE /\ emitted' = {"disconnected", "reconnectFailed"}
            /\ gaveUp' = TRUE
            /\ UNCHANGED <<reconnectAttempts, timers, delay>>
    /\ UNCHANGED <<ws, messageQueue, isProduction, wire, nextId,
                   pageVars, idVars, dispatchVars>>

\* the timeout set by attemptReconnect fires: connect()
ReconnectTimer ==
    /\ timers > 0
    /\ timers' = timers - 1
    /\ \E s \in Slots :
         /\ FreeSlot(s)
         /\ sockets' = [sockets EXCEPT ![s] = "connecting"]
         /\ ws' = s
    /\ wsPlayerId' \in PlayerIds
    /\ emitted' = {}
    /\ UNCHANGED <<connected, reconnectAttempts, messageQueue, pingInterval,
                   pongTimeout, isProduction, delay, wire, nextId, gaveUp,
                   stamps, pageVars, dispatchVars>>

\* the keepalive interval fires: a probe is written to an open socket and the
\* pong timeout is set
Ping ==
    /\ pingInterval
    /\ pongTimeout' = (IF WsIsOpen(sockets, ws) THEN TRUE ELSE pongTimeout)
    /\ emitted' = {}
    /\ UNCHANGED <<sockets, ws, connected, reconnectAttempts, messageQueue,
                   pingInterval, isProduction, timers, delay, wire, nextId, gaveUp,
                   pageVars, idVars, dispatchVars>>

\* ws.onmessage with 'pong'
Pong ==
    /\ pongTimeout
    /\ pongTimeout' = FALSE
    /\ emitted' = {}
    /\ UNCHANGED <<sockets, ws, connected, reconnectAttempts, messageQueue,
                   pingInterval, isProduction, timers, delay, wire, nextId, gaveUp,
                   pageVars, idVars, dispatchVars>>

\* the pong timeout fires: this.ws.close()
PongTimeout ==
    /\ pongTimeout
    /\ pongTimeout' = FALSE
    /\ ws # 0
    /\ sockets' = [sockets EXCEPT
                     ![ws] = IF @ \in {"connecting", "open"} THEN "closing" ELSE @]
    /\ emitted' = {}
    /\ UNCHANGED <<ws, connected, reconnectAttempts, messageQueue, pingInterval,
                   isProduction, timers, delay, wire, nextId, gaveUp,
                   pageVars, idVars, dispatchVars>>

\* disconnect()
Disconnect ==
    /\ ws # 0
    /\ pingInterval' = FALSE
    /\ pongTimeout' = FALSE
    /\ sockets' = [sockets EXCEPT
                     ![ws] = IF @ \in {"connecting", "open"} THEN "closing" ELSE @]
    /\ ws' = 0
    /\ connected' = FALSE
    /\ emitted' = {}
    /\ listeners' = [c \in ListenChannels |-> <<>>]
    /\ UNCHANGED <<reconnectAttempts, messageQueue, isProduction, timers, delay,
                   wire, nextId, gaveUp,
                   pageVars, idVars, delivered>>

\* the parsed frames: 'pong', text that JSON.parse rejects, JSON null, a JSON
\* number or string, and objects with a type (or "" for none or another
\* one), with or without a room, with a responseId (or 0 for none)
FrameTypes == {"roomUpdate", "gameStart", "gameUpdate", "chatMessage",
               "typingUpdate"}

Frames ==
    {[kind |-> k, type |-> "", room |-> FALSE, responseId |-> 0] :
        k \in {"pong", "garbage", "null", "scalar"}}
    \cup
    {[kind |-> "object", type |-> t, room |-> r, responseId |-> i] :
        t \in FrameTypes \cup {""}, r \in BOOLEAN, i \in 0..1}

ResponseChannel(i) == IF i = 1 THEN "response:1" ELSE "response:0"

ChannelsUntyped(f) ==
    IF f.kind \in {"pong", "garbage", "null"} THEN <<>>
    ELSE IF f.responseId # 0
         THEN <<ResponseChannel(f.responseId), "response">>
         ELSE <<"response">>

\* onmessage and handleMessage(message): the channels emit() is called with,
\* in order
Channels(f) ==
    IF f.kind \in {"pong", "garbage", "null"} THEN <<>>
    ELSE IF f.kind = "scalar" THEN <<"response">>
    ELSE IF f.type \in {"roomUpdate", "gameStart", "gameUpdate"} THEN <<f.type>>
    ELSE IF f.type \in {"chatMessage", "typingUpdate"}
         THEN (IF f.room THEN <<f.type>> ELSE <<>>)
    ELSE IF f.responseId # 0
         THEN <<ResponseChannel(f.responseId), "response">>
         ELSE <<"response">>

\* the callbacks registered on channel c
Registered(c) == IF c \in ListenChannels THEN listeners[c] ELSE <<>>

CalledUnprotected(cbs) ==
    {cbs[i] : i \in {j \in 1..Len(cbs) :
                        \A k \in 1..(j - 1) : cbs[k] \notin Throwing}}

\* emit(event, data): the callbacks of cbs that are called; each call is in a
\* try/catch, so that a throwing callback does not end the forEach
Called(cbs) == SeqToSet(cbs)

\* on(event, callback)
On(c, l) ==
    /\ Len(listeners[c]) < MaxListeners
    /\ l \notin SeqToSet(listeners[c])
    /\ listeners' = [listeners EXCEPT ![c] = Append(@, l)]
    /\ UNCHANGED <<sockets, ws, connected, reconnectAttempts, messageQueue,
                   pingInterval, pongTimeout, isProduction, timers, delay, wire,
                   nextId, emitted, gaveUp, delivered, pageVars, idVars>>

\* off(event, callback): splice at indexOf(callback)
Off(c, l) ==
    /\ l \in SeqToSet(listeners[c])
    /\ listeners' = [listeners EXCEPT ![c] = SelectSeq(@, LAMBDA x : x # l)]
    /\ UNCHANGED <<sockets, ws, connected, reconnectAttempts, messageQueue,
                   pingInterval, pongTimeout, isProduction, timers, delay, wire,
                   nextId, emitted, gaveUp, delivered, pageVars, idVars>>

\* ws.onmessage of an open socket with frame f
OnMessage(f) ==
    LET chans == Channels(f)
        calls == {<<chans[i], l>> : i \in 1..Len(chans), l \in ListenerIds}
        made == {x \in calls : x[2] \in Called(Registered(x[1]))}
    IN  /\ \E s \in Slots : sockets[s] = "open"
        /\ pongTimeout' = (IF f.kind = "pong" THEN FALSE ELSE pongTimeout)
        /\ emitted' = SeqToSet(chans)
        /\ delivered' = made
        /\ UNCHANGED <<sockets, ws, connected, reconnectAttempts, messageQueue,
                       pingInterval, isProduction, timers, delay, wire, nextId,
                       gaveUp, listeners, pageVars, idVars>>

WsNext ==
    \/ Connect
    \/ Send
    \/ \E s \in Slots : OnOpen(s)
    \/ \E s \in Slots : OnClose(s)
    \/ ReconnectTimer
    \/ Ping
    \/ Pong
    \/ PongTimeout
    \/ Disconnect

(* ---------------------------- Game component ------------------------- *)
\* a value that may be null
None == <<>>
Some(x) == <<x>>
Val(m) == m[1]

Status == {"waiting", "playing", "paused", "ended"}

\* playerId of this client; host_id of a session is 0 when absent
MyId == 1
HostIds == {0, MyId, MyId + 1}

\* TICK_RATE
TICK_RATE == IF isProduction THEN TickRateProd ELSE TickRateDev

PollIds == 1..MaxPollIds

\* the countdown started by a game start, in seconds
CountdownStart == 5

\* a || b of JavaScript on a field that is absent (0) or present
OrElse(a, b) == IF a # 0 THEN a ELSE b

\* the session snapshots the server sends: the participants and simulation
\* entities (players) are opaque, the chat fields are absent (0) or present
ServerRooms ==
    {[room_code |-> 1, status |-> st, host_id |-> MyId, players |-> v[1],
      chat |-> v[2], gameChat |-> v[3], typing |-> v[4]] :
        st \in Status, v \in {<<1, 0, 0, 0>>, <<2, 1, 1, 1>>}}

RoomCode(r) == IF r = None THEN 0 ELSE Val(r).room_code

IntervalIds == 1..MaxIntervals

NoInterval == [alive |-> FALSE, count |-> 0, fromStart |-> FALSE]

GameInit ==
    /\ room = None
    /\ displayRoom = None
    /\ countdown = None
    /\ isInWaitingLobby = FALSE
    /\ isStartingGame = FALSE
    /\ pendingRoomUpdate = None
    /\ listenerRoom = None
    /\ listenerDisplayRoom = None
    /\ intervals = [i \in IntervalIds |-> NoInterval]
    /\ countdownIntervalRef = 0
    /\ polls = 0
    /\ starts = 0
    /\ playAgain = "idle"
    /\ pollingRef = 0
    /\ pollLive = {}
    /\ renderLoopRef = FALSE
    /\ gameLoopRef = FALSE
    /\ lastTickTime = 0
    /\ startCues = None
    /\ now = 0
    /\ lastTickRef = 0
    /\ pendingTicks = {}
    /\ ticksSent = 0
    /\ lastSentAt = None
    /\ directionQueue = None
    /\ directionSent = None
    /\ tickOut = <<>>
    /\ error = ""
    /\ command = None
    /\ lobbyPlayers = <<>>
    /\ lobbyHost = 0
    /\ startTriggered = FALSE

\* clearInterval(countdownIntervalRef.current)
ClearRef(ivs, ref) == IF ref = 0 THEN ivs ELSE [ivs EXCEPT ![ref] = NoInterval]

FreeInterval(ivs, i) ==
    /\ ~ivs[i].alive
    /\ \A j \in IntervalIds : ~ivs[j].alive => i <= j

FreePoll(live, i) == i \notin live /\ \A j \in PollIds \ live : i <= j

PollCleanupSkipped(live, ref) == live

\* the cleanup of the polling effect: clearInterval(pollingRef.current)
PollCleanup(live, ref) == live \ {ref}

\* soundManager.playStart()
PlayStart ==
    IF startCues = None THEN None
    ELSE Some(IF Val(startCues) < MaxCues THEN Val(startCues) + 1 ELSE MaxCues)

\* the render that follows a handler, with the effects it runs: the handler
\* leaves r, d, c in room, displayRoom, countdown, ivs and ref in the countdown
\* timers and their ref, st in isStartingGameRef, and has played the start
\* cues counted in cues.
\*  - effect [room?.room_code] cleanup: the countdown timer in the ref is
\*    cleared and isStartingGameRef reset when the room code changes;
\*  - effect [room?.room_code, ..., countdown]: the broadcast listeners are
\*    registered again, closing over this render's room and displayRoom, only
\*    when the room code or the countdown changes; none while room is null;
\*  - effect [room, displayRoom]: displayRoom is seeded from room when null;
\*  - effect [room?.status, pollRoom], pollRoom changing with room: the poll
\*    interval in pollingRef is cleared, and one is set while a session is
\*    present and not 'playing';
\*  - effect [room?.status]: renderLoop runs while the status is 'playing';
\*  - effect [room?.status, gameTick, countdown, ...], gameTick changing with
\*    room and countdown: the game loop is stopped, and started again with
\*    lastTickTime = 0 while 'playing' with no countdown above 0.
CommitSession(r, d, c, ivs, ref, st, cues) ==
    LET codeChanged == RoomCode(r) # RoomCode(room)
        depsChanged == codeChanged \/ c # countdown
        roomChanged == r # room
        cleaned == PollCleanup(pollLive, pollingRef)
        playing == r # None /\ Val(r).status = "playing"
        loopOn == playing /\ ~(c # None /\ Val(c) > 0)
    IN  /\ room' = r
        /\ displayRoom' = (IF r # None /\ d = None THEN r ELSE d)
        /\ countdown' = c
        /\ intervals' = (IF codeChanged THEN ClearRef(ivs, ref) ELSE ivs)
        /\ countdownIntervalRef' = (IF codeChanged THEN 0 ELSE ref)
        /\ isStartingGame' = (IF codeChanged THEN FALSE ELSE st)
        /\ listenerRoom' =
             (IF r = None THEN None ELSE IF depsChanged THEN r ELSE listenerRoom)
        /\ listenerDisplayRoom' =
             (IF r = None THEN None
              ELSE IF depsChanged THEN d ELSE listenerDisplayRoom)
        /\ IF ~roomChanged
           THEN UNCHANGED <<pollLive, pollingRef>>
           ELSE IF r # None /\ ~playing
                THEN \E i \in PollIds :
                       /\ FreePoll(cleaned, i)
                       /\ pollLive' = cleaned \cup {i}
                       /\ pollingRef' = i
                ELSE pollLive' = cleaned /\ pollingRef' = pollingRef
        /\ renderLoopRef' = playing
        /\ gameLoopRef' = loopOn
        /\ lastTickTime' =
             (IF loopOn /\ gameLoopRef /\ ~roomChanged /\ c = countdown
              THEN lastTickTime ELSE 0)
        /\ startCues' = (IF r = None THEN None ELSE cues)
        /\ UNCHANGED <<wsVars, tickVars>>

\* a render after a handler other than those of the lobby and menu commands
Commit(r, d, c, ivs, ref, st, cues) ==
    /\ CommitSession(r, d, c, ivs, ref, st, cues)
    /\ UNCHANGED commandVars

\* a render after a handler that plays no start cue
Render(r, d, c, ivs, ref, st) == Commit(r, d, c, ivs, ref, st, startCues)

\* a render after a handler that touches neither the countdown nor its timers
RenderRooms(r, d) ==
    Render(r, d, countdown, intervals, countdownIntervalRef, isStartingGame)

InterpolateKeepsFirst(nextRoom, fresh) ==
    /\ pendingRoomUpdate' =
         (IF fresh THEN None
          ELSE IF pendingRoomUpdate # None THEN pendingRoomUpdate
          ELSE Some(nextRoom))
    /\ RenderRooms(Some(nextRoom), IF fresh THEN Some(nextRoom) ELSE displayRoom)

\* setRoomWithInterpolation(nextRoom): fresh is now - lastUpdateTimeRef >= 16
Interpolate(nextRoom, fresh) ==
    /\ pendingRoomUpdate' = (IF fresh THEN None ELSE Some(nextRoom))
    /\ RenderRooms(Some(nextRoom), IF fresh THEN Some(nextRoom) ELSE displayRoom)

IntentGuardIgnored == FALSE

\* handleRoomUpdate, handleGameUpdate: the guard on the waiting-lobby intent
IntentGuard == isInWaitingLobby

\* handleCreateRoom, handleJoinRoom: a successful result; the JoinForm that
\* offers them is rendered while room is null, and the room entered is waiting
EnterRoom(r) ==
    /\ room = None
    /\ r.status = "waiting"
    /\ RenderRooms(Some(r), Some(r))
    /\ UNCHANGED <<isInWaitingLobby, pendingRoomUpdate, polls, starts, playAgain>>

\* handleRoomUpdate(updatedRoom)
HandleRoomUpdate(u, fresh) ==
    /\ room # None
    /\ IF IntentGuard
       THEN /\ IF u.status = "waiting"
               THEN RenderRooms(Some(u), displayRoom)
               ELSE RenderRooms(room, displayRoom)
            /\ UNCHANGED pendingRoomUpdate
       ELSE Interpolate(u, fresh)
    /\ UNCHANGED <<isInWaitingLobby, polls, starts, playAgain>>

\* handleGameUpdate(update)
HandleGameUpdate(u, fresh) ==
    /\ room # None
    /\ IF IntentGuard
       THEN RenderRooms(room, displayRoom) /\ UNCHANGED pendingRoomUpdate
       ELSE Interpolate(u, fresh)
    /\ UNCHANGED <<isInWaitingLobby, polls, starts, playAgain>>

\* handleGameStart(updatedRoom)
HandleGameStart(u, fresh) ==
    LET next == Some([u EXCEPT !.status = "playing"])
        d == IF fresh THEN next ELSE displayRoom
    IN  /\ room # None
        /\ isInWaitingLobby' = FALSE
        /\ pendingRoomUpdate' = (IF fresh THEN None ELSE next)
        /\ IF countdown = None \/ Val(countdown) <= 0
           THEN \E i \in IntervalIds :
                  LET ivs == ClearRef(intervals, countdownIntervalRef)
                  IN  /\ FreeInterval(ivs, i)
                      /\ Render(next, d, Some(CountdownStart),
                                [ivs EXCEPT ![i] = [alive |-> TRUE,
                                                    count |-> CountdownStart,
                                                    fromStart |-> FALSE]],
                                i, isStartingGame)
           ELSE RenderRooms(next, d)
        /\ UNCHANGED <<polls, starts, playAgain>>

\* the callback of countdown timer i: count--, and the end of the countdown at
\* count <= 0 (a count below 0 acts as 0 does, and is kept as 0)
CountdownTick(i) ==
    LET iv == intervals[i]
        n == IF iv.count > 0 THEN iv.count - 1 ELSE 0
        ticked == [intervals EXCEPT ![i].count = n]
    IN  /\ iv.alive
        /\ IF n <= 0
           THEN Commit(room, displayRoom, None,
                       ClearRef(ticked, countdownIntervalRef), 0,
                       IF iv.fromStart THEN FALSE ELSE isStartingGame, PlayStart)
           ELSE Render(room, displayRoom, Some(n), ticked, countdownIntervalRef,
                       isStartingGame)
        /\ UNCHANGED <<isInWaitingLobby, pendingRoomUpdate, polls, starts, playAgain>>

\* handleChatMessage(updatedRoom): room and displayRoom are those of the
\* listeners' closure
HandleChatMessage(u) ==
    /\ room # None
    /\ IF listenerRoom # None
       THEN LET old == Val(listenerRoom)
                merged == [old EXCEPT !.chat = OrElse(u.chat, old.chat),
                                      !.gameChat = OrElse(u.gameChat, old.gameChat),
                                      !.typing = OrElse(u.typing, old.typing)]
            IN  IF merged.status = old.status
                THEN RenderRooms(Some(merged),
                       IF listenerDisplayRoom # None
                       THEN Some([Val(listenerDisplayRoom) EXCEPT
                                    !.chat = merged.chat,
                                    !.gameChat = merged.gameChat,
                                    !.typing = merged.typing])
                       ELSE displayRoom)
                ELSE RenderRooms(room, displayRoom)
       ELSE RenderRooms(room, displayRoom)
    /\ UNCHANGED <<isInWaitingLobby, pendingRoomUpdate, polls, starts, playAgain>>

\* handleTypingUpdate(updatedRoom)
HandleTypingUpdate(u) ==
    /\ room # None
    /\ IF listenerRoom # None
       THEN LET old == Val(listenerRoom)
                merged == [old EXCEPT !.typing = OrElse(u.typing, old.typing)]
            IN  IF merged.status = old.status
                THEN RenderRooms(Some(merged),
                       IF listenerDisplayRoom # None
                       THEN Some([Val(listenerDisplayRoom) EXCEPT
                                    !.typing = merged.typing])
                       ELSE displayRoom)
                ELSE RenderRooms(room, displayRoom)
       ELSE RenderRooms(room, displayRoom)
    /\ UNCHANGED <<isInWaitingLobby, pendingRoomUpdate, polls, starts, playAgain>>

\* a polling interval fires: pollRoom, of the render that set the interval,
\* sends getRoom
PollRequest ==
    /\ pollLive # {}
    /\ room # None
    /\ polls < MaxPolls
    /\ polls' = polls + 1
    /\ UNCHANGED <<room, displayRoom, countdown, isInWaitingLobby, isStartingGame,
                   pendingRoomUpdate, listenerRoom, listenerDisplayRoom, intervals,
                   countdownIntervalRef, starts, playAgain, wsVars, effectVars,
                   tickVars, commandVars>>

\* pollRoom resumes with a successful result; the room of its closure was not
\* 'playing', or no interval would have called it
PollResult(r) ==
    /\ polls > 0
    /\ polls' = polls - 1
    /\ Commit(Some(r), displayRoom, countdown, intervals, countdownIntervalRef,
              isStartingGame, IF r.status = "playing" THEN PlayStart ELSE startCues)
    /\ UNCHANGED <<isInWaitingLobby, pendingRoomUpdate, starts, playAgain>>

\* pollRoom resumes with a failed result or an exception
PollFailed ==
    /\ polls > 0
    /\ polls' = polls - 1
    /\ UNCHANGED <<room, displayRoom, countdown, isInWaitingLobby, isStartingGame,
                   pendingRoomUpdate, listenerRoom, listenerDisplayRoom, intervals,
                   countdownIntervalRef, starts, playAgain, wsVars, effectVars,
                   tickVars, commandVars>>

\* handleStartGame up to its await; the Lobby that offers it is rendered when
\* the status is 'waiting'
StartRequest ==
    /\ room # None
    /\ Val(room).status = "waiting"
    /\ ~isStartingGame
    /\ starts < MaxStarts
    /\ starts' = starts + 1
    /\ isInWaitingLobby' = FALSE
    /\ Commit(room, displayRoom, countdown,
              ClearRef(intervals, countdownIntervalRef), 0, TRUE, Some(0))
    /\ UNCHANGED <<pendingRoomUpdate, polls, playAgain>>

\* handleStartGame resumes with result.success && result.room
StartResult(r) ==
    LET next == Some([r EXCEPT !.status = "playing"])
    IN  /\ starts > 0
        /\ starts' = starts - 1
        /\ \E i \in IntervalIds :
             /\ FreeInterval(intervals, i)
             /\ Render(next, next, Some(CountdownStart),
                       [intervals EXCEPT ![i] = [alive |-> TRUE,
                                                 count |-> CountdownStart,
                                                 fromStart |-> TRUE]],
                       i, isStartingGame)
        /\ UNCHANGED <<isInWaitingLobby, pendingRoomUpdate, polls, playAgain>>

\* handleStartGame resumes with a failed result (thrown FALSE) or with an
\* exception (thrown TRUE)
StartFailed(thrown) ==
    /\ starts > 0
    /\ starts' = starts - 1
    /\ Render(room, displayRoom, IF thrown THEN None ELSE countdown,
              intervals, countdownIntervalRef, FALSE)
    /\ UNCHANGED <<isInWaitingLobby, pendingRoomUpdate, polls, playAgain>>

\* handlePlayAgain up to its first await (resetToLobby); the GameMenu offers
\* it when the status is 'ended' (Lobby.jsx, GameMenu)
PlayAgainRequest ==
    /\ room # None
    /\ Val(room).status = "ended"
    /\ playAgain = "idle"
    /\ playAgain' = "resetToLobby"
    /\ isInWaitingLobby' = TRUE
    /\ Render(room, displayRoom, None,
              ClearRef(intervals, countdownIntervalRef), 0, FALSE)
    /\ UNCHANGED <<pendingRoomUpdate, polls, starts>>

\* handlePlayAgain resumes with the result of resetToLobby: success with a room
PlayAgainReset(r) ==
    /\ playAgain = "resetToLobby"
    /\ playAgain' = "idle"
    /\ RenderRooms(Some(r), Some(r))
    /\ UNCHANGED <<isInWaitingLobby, pendingRoomUpdate, polls, starts>>

\* resetToLobby failed or threw: handlePlayAgain awaits getRoom
PlayAgainResetFailed ==
    /\ playAgain = "resetToLobby"
    /\ playAgain' = "getRoom"
    /\ UNCHANGED <<room, displayRoom, countdown, isInWaitingLobby, isStartingGame,
                   pendingRoomUpdate, listenerRoom, listenerDisplayRoom, intervals,
                   countdownIntervalRef, polls, starts, wsVars, effectVars,
                   tickVars, commandVars>>

\* handlePlayAgain resumes with the result of the fallback getRoom: success
PlayAgainGetRoom(r) ==
    LET next == Some([r EXCEPT !.status = "waiting"])
    IN  /\ playAgain = "getRoom"
        /\ playAgain' = "idle"
        /\ RenderRooms(next, next)
        /\ UNCHANGED <<isInWaitingLobby, pendingRoomUpdate, polls, starts>>

\* the fallback getRoom failed or threw
PlayAgainGetRoomFailed ==
    /\ playAgain = "getRoom"
    /\ playAgain' = "idle"
    /\ isInWaitingLobby' = FALSE
    /\ RenderRooms(None, None)
    /\ UNCHANGED <<pendingRoomUpdate, polls, starts>>

\* handleQuit, after leaveRoom has returned or thrown
Quit ==
    /\ room # None
    /\ RenderRooms(None, None)
    /\ UNCHANGED <<isInWaitingLobby, pendingRoomUpdate, polls, starts, playAgain>>

\* renderLoop: a display frame while playing applies the pending update
RenderLoop ==
    /\ room # None
    /\ Val(room).status = "playing"
    /\ pendingRoomUpdate # None
    /\ pendingRoomUpdate' = None
    /\ RenderRooms(room, pendingRoomUpdate)
    /\ UNCHANGED <<isInWaitingLobby, polls, starts, playAgain>>

\* time passes
Advance ==
    /\ now + ClockStep <= MaxTime
    /\ now' = now + ClockStep
    /\ UNCHANGED <<lastTickRef, pendingTicks, ticksSent, lastSentAt, inputVars,
                   wsVars, gameVars, effectVars, commandVars>>

\* loop(timestamp) of the game loop, on a frame where a tick is due: gameTick
\* of the render that started the loop is scheduled by setTimeout(0). A frame
\* where none is due changes nothing.
LoopFrame ==
    LET t == [room |-> room, countdown |-> countdown]
    IN  /\ gameLoopRef
        /\ now - lastTickTime >= TICK_RATE
        /\ t \in pendingTicks \/ Cardinality(pendingTicks) < MaxPendingTicks
        /\ pendingTicks' = pendingTicks \cup {t}
        /\ lastTickTime' = now
        /\ UNCHANGED <<now, lastTickRef, ticksSent, lastSentAt, inputVars, wsVars,
                       commandVars,
                       gameVars, pollingRef, pollLive, renderLoopRef, gameLoopRef,
                       startCues>>

\* Date.now()
DateNow == DateAtLoad + now

\* gameTick: the early returns on the room and countdown of its closure
Playing(t) == t.room # None /\ Val(t.room).status = "playing"
CountingDown(t) == t.countdown # None /\ Val(t.countdown) > 0
NotDriver(t) == Val(t.room).host_id # 0 /\ Val(t.room).host_id # MyId

ThrottleIgnored == FALSE

\* gameTick: now - lastTickRef.current < effectiveTickRate
Throttled == DateNow - lastTickRef < TICK_RATE

\* keyMap: the directions of the movement keys
Directions == {"up", "down", "left", "right"}

\* the commands of gameTick
UpdateDirection(d) == [action |-> "updateDirection", direction |-> d]
Tick == [action |-> "tick", direction |-> ""]

TickCommandsTickFirst(q) ==
    IF q # None THEN <<Tick, UpdateDirection(Val(q))>> ELSE <<Tick>>

\* gameTick: the commands handed to wsClient.send when the queue holds q
TickCommands(q) ==
    IF q # None THEN <<UpdateDirection(Val(q)), Tick>> ELSE <<Tick>>

\* handleKeyDown with a movement key, outside the chat input: the direction
\* is queued, and sent at once through callServer
KeyDown(d) ==
    /\ room # None
    /\ Val(room).status = "playing"
    /\ directionQueue' = Some(d)
    /\ directionSent' = Some(d)
    /\ UNCHANGED <<now, lastTickRef, pendingTicks, ticksSent, lastSentAt, tickOut,
                   lobbyVars, wsVars, gameVars, effectVars, commandVars>>

\* a scheduled gameTick runs, and emits a tick-advance request unless it
\* returns early
GameTick(t) ==
    /\ t \in pendingTicks
    /\ pendingTicks' = pendingTicks \ {t}
    /\ IF Playing(t) /\ ~CountingDown(t) /\ ~NotDriver(t) /\ ~Throttled
       THEN /\ ticksSent < MaxTicks
            /\ lastTickRef' = DateNow
            /\ ticksSent' = ticksSent + 1
            /\ lastSentAt' = Some(now)
            /\ tickOut' = TickCommands(directionQueue)
            /\ directionQueue' = None
       ELSE UNCHANGED <<lastTickRef, ticksSent, lastSentAt, tickOut,
                        directionQueue>>
    /\ UNCHANGED <<now, directionSent, lobbyVars, wsVars, gameVars, effectVars,
                   commandVars>>

\* the participants of a snapshot: the one at position i has id i, is a bot
\* or not, and has a ready field that is true, false or absent
ReadyValues == {"true", "false", "undefined"}

PlayerLists ==
    UNION {[1..n -> [isBot : BOOLEAN, ready : ReadyValues]] : n \in 0..MaxPlayers}

PlayerId(i) == i

\* Lobby: isHost
IsHost == lobbyHost = MyId

CanStartAlone == TRUE

\* Lobby: canStart
CanStart == Len(lobbyPlayers) >= 2

\* Lobby: guestPlayers, by position
GuestPlayers ==
    {i \in 1..Len(lobbyPlayers) :
        ~lobbyPlayers[i].isBot /\ PlayerId(i) # lobbyHost}

\* Lobby: allReady
AllReady ==
    GuestPlayers = {} \/ \A i \in GuestPlayers : lobbyPlayers[i].ready = "true"

\* a snapshot with participants ps and host h is rendered in the lobby
LobbySnapshot(ps, h) ==
    /\ lobbyPlayers' = ps
    /\ lobbyHost' = h
    /\ startTriggered' = FALSE
    /\ UNCHANGED <<now, lastTickRef, pendingTicks, ticksSent, lastSentAt,
                   directionQueue, directionSent, tickOut, wsVars, gameVars,
                   effectVars, commandVars>>

\* onClick of the start button, which is rendered for the host: onStart is
\* called unless !canStart || !allReady
ClickStart ==
    /\ IsHost
    /\ startTriggered' = (CanStart /\ AllReady)
    /\ UNCHANGED <<lobbyPlayers, lobbyHost, now, lastTickRef, pendingTicks,
                   ticksSent, lastSentAt, directionQueue, directionSent, tickOut,
                   wsVars, gameVars, effectVars, commandVars>>

\* the commands with a handler of their own that awaits the result
EntryCommands == {"createRoom", "joinRoom"}
LobbyCommands == {"addBot", "removeBot", "toggleReady"}
MenuCommands == {"pauseGame", "resumeGame"}
Commands == EntryCommands \cup LobbyCommands \cup MenuCommands \cup {"sendMessage"}

\* the handlers that call setError on a failed result and in their catch
SetsError(c) == c \in EntryCommands \cup LobbyCommands

\* the session in which the control of command c is offered: JoinForm while
\* there is none, the lobby while waiting, the pause and resume buttons of
\* GameMenu, the chat in every session
Offered(c) ==
    IF c \in EntryCommands THEN room = None
    ELSE /\ room # None
         /\ c \in LobbyCommands => Val(room).status = "waiting"
         /\ c = "pauseGame" => Val(room).status = "playing"
         /\ c = "resumeGame" => Val(room).status = "paused"

\* a command handler up to its await: handleCreateRoom and handleJoinRoom
\* clear the error first
CommandRequest(c) ==
    /\ command = None
    /\ Offered(c)
    /\ command' = Some(c)
    /\ error' = (IF c \in EntryCommands THEN "" ELSE error)
    /\ UNCHANGED <<wsVars, gameVars, effectVars, tickVars>>

\* the handler resumes with a successful result carrying snapshot r;
\* handlePause and handleResume with that of their getRoom
CommandResult(c, r) ==
    /\ command = Some(c)
    /\ command' = None
    /\ error' = error
    /\ c \in EntryCommands => r.status = "waiting"
    /\ CommitSession(Some(r), IF c \in EntryCommands THEN Some(r) ELSE displayRoom,
                     countdown, intervals, countdownIntervalRef, isStartingGame,
                     startCues)
    /\ UNCHANGED <<isInWaitingLobby, pendingRoomUpdate, polls, starts, playAgain>>

\* the handler resumes with a failed result or with an exception;
\* handlePause and handleResume with an exception, or a failed getRoom
CommandFailed(c) ==
    /\ command = Some(c)
    /\ command' = None
    /\ error' = (IF SetsError(c) THEN "failed" ELSE error)
    /\ UNCHANGED <<wsVars, gameVars, effectVars, tickVars>>

\* snapshots that differ in their status only
StatusRooms == {r \in ServerRooms : r.players = 1}

GameInitAll == WsInit /\ ~isProduction /\ GameInit

\* the steps shared by the specifications below: entering and leaving a
\* session, the snapshot broadcasts, the countdown and the display frames;
\* the snapshots are drawn from R
SessionSteps(R) ==
    \/ \E r \in R : EnterRoom(r)
    \/ \E u \in R, fresh \in BOOLEAN : HandleRoomUpdate(u, fresh)
    \/ \E u \in R, fresh \in BOOLEAN : HandleGameUpdate(u, fresh)
    \/ \E u \in R, fresh \in BOOLEAN : HandleGameStart(u, fresh)
    \/ \E i \in IntervalIds : CountdownTick(i)
    \/ Quit
    \/ RenderLoop

\* the fallback poll
PollSteps(R) ==
    \/ PollRequest
    \/ \E r \in R : PollResult(r)
    \/ PollFailed

\* the host's start request
StartSteps(R) ==
    \/ StartRequest
    \/ \E r \in R : StartResult(r)
    \/ \E thrown \in BOOLEAN : StartFailed(thrown)

\* the closures a scheduled gameTick can have over sessions drawn from R
TickClosures(R) ==
    {[room |-> r, countdown |-> c] :
       r \in {None} \cup {Some(x) : x \in R},
       c \in {None} \cup {Some(n) : n \in 1..CountdownStart}}

\* the tick scheduler
TickSteps(R) ==
    \/ Advance
    \/ LoopFrame
    \/ \E t \in TickClosures(R) : GameTick(t)

\* the 'play again' request
PlayAgainSteps(R) ==
    \/ PlayAgainRequest
    \/ \E r \in R : PlayAgainReset(r)
    \/ PlayAgainResetFailed
    \/ \E r \in R : PlayAgainGetRoom(r)
    \/ PlayAgainGetRoomFailed

\* the chat and typing broadcasts
ChatSteps(R) ==
    \/ \E u \in R : HandleChatMessage(u)
    \/ \E u \in R : HandleTypingUpdate(u)

\* the session store with the waiting-lobby intent: broadcasts, polls and
\* 'play again', under snapshots of every status
IntentNext ==
    \/ SessionSteps(StatusRooms)
    \/ PollSteps(StatusRooms)
    \/ PlayAgainSteps(StatusRooms)

IntentSpec == GameInitAll /\ [][IntentNext]_vars

\* the session store with the chat and typing broadcasts, under snapshots of
\* a lobby and of a running game, with and without chat
ChatRooms == {r \in ServerRooms : r.status \in {"waiting", "playing"}}

ChatNext ==
    \/ SessionSteps(ChatRooms)
    \/ ChatSteps(ChatRooms)

ChatSpec == GameInitAll /\ [][ChatNext]_vars

\* entering and leaving a session, the gameStart broadcast and the countdown;
\* a broadcast comes 16 ms or more after the display was last updated
CountdownSteps(R) ==
    \/ \E r \in R : EnterRoom(r)
    \/ \E u \in R : HandleGameStart(u, TRUE)
    \/ \E i \in IntervalIds : CountdownTick(i)
    \/ Quit

\* snapshots of a lobby and of a running game
StartRooms == {r \in StatusRooms : r.status \in {"waiting", "playing"}}

\* the host's game start: the start request, the gameStart broadcast, the
\* countdown and the fallback poll
StartNext ==
    \/ CountdownSteps(StartRooms)
    \/ PollSteps(StartRooms)
    \/ StartSteps(StartRooms)

StartSpec == GameInitAll /\ [][StartNext]_vars

\* the snapshots of a server whose sessions have one participant while
\* 'waiting' and two, with chat, in every other status
SentRooms == {r \in ServerRooms : (r.status = "waiting") <=> (r.players = 1)}

\* the lobby: the start request, the 'play again' request, the gameStart and
\* roomUpdate broadcasts and the countdown
LobbyNext ==
    \/ CountdownSteps(SentRooms)
    \/ \E u \in SentRooms : HandleRoomUpdate(u, TRUE)
    \/ StartSteps(SentRooms)
    \/ PlayAgainSteps(SentRooms)

LobbySpec == GameInitAll /\ [][LobbyNext]_vars

\* snapshots that differ in their status and their host only
TickRooms ==
    {[r EXCEPT !.host_id = h] : r \in {x \in StatusRooms : x.status # "ended"},
                                h \in HostIds}

\* the tick scheduler under the session broadcasts
TickNext ==
    \/ CountdownSteps(TickRooms)
    \/ \E u \in TickRooms : HandleRoomUpdate(u, TRUE)
    \/ TickSteps(TickRooms)

TickSpec == GameInitAll /\ [][TickNext]_vars

\* the tick scheduler under the movement keys, in a session that this client
\* drives
DirectionNext ==
    \/ \E r \in StartRooms : EnterRoom(r)
    \/ \E u \in StartRooms : HandleRoomUpdate(u, TRUE)
    \/ Quit
    \/ \E d \in Directions : KeyDown(d)
    \/ TickSteps(StartRooms)

DirectionSpec == GameInitAll /\ [][DirectionNext]_vars

\* loop(timestamp): the frame on which a tick is due
FrameDue == gameLoopRef /\ now - lastTickTime >= TICK_RATE

\* time passes by one clock step, display frames and zero-delay timeouts
\* being run within the step: no due frame and no scheduled gameTick is left
AdvancePaced ==
    /\ ~FrameDue
    /\ pendingTicks = {}
    /\ Advance

\* snapshots of a lobby and of a running game
PaceRooms == {r \in ServerRooms : r.status \in {"waiting", "playing"}}
PlayingRooms == {r \in ServerRooms : r.status = "playing"}

\* the tick scheduler of the driver under the game updates of a running game
PaceNext ==
    \/ \E r \in PaceRooms : EnterRoom(r)
    \/ \E u \in PlayingRooms : HandleGameUpdate(u, TRUE)
    \/ AdvancePaced
    \/ LoopFrame
    \/ \E t \in TickClosures(PaceRooms) : GameTick(t)

PaceSpec == GameInitAll /\ [][PaceNext]_vars

\* the display buffer under the game updates; the browser keeps calling
\* renderLoop while it is scheduled
FlushNext ==
    \/ \E r \in ServerRooms : EnterRoom(r)
    \/ \E u \in ServerRooms, fresh \in BOOLEAN : HandleGameUpdate(u, fresh)
    \/ RenderLoop

FlushSpec == GameInitAll /\ [][FlushNext]_vars /\ WF_vars(RenderLoop)

\* the start button of the lobby under the snapshots of the session
ReadyNext ==
    \/ \E ps \in PlayerLists, h \in HostIds : LobbySnapshot(ps, h)
    \/ ClickStart

ReadySpec == GameInitAll /\ [][ReadyNext]_vars

\* the commands of the lobby and the menu, the start and the 'play again'
CommandNext ==
    \/ \E c \in Commands : CommandRequest(c)
    \/ \E c \in Commands, r \in StatusRooms : CommandResult(c, r)
    \/ \E c \in Commands : CommandFailed(c)
    \/ StartSteps(StatusRooms)
    \/ PlayAgainSteps(StatusRooms)
    \/ Quit

CommandSpec == GameInitAll /\ [][CommandNext]_vars

\* the transport, with the Game component not yet mounted in a session
WsInitAll == WsInit /\ GameInit

WsSpec == WsInitAll /\ [][WsNext]_vars

\* the dispatch of inbound frames to the registered callbacks
DispatchNext ==
    \/ Connect
    \/ \E s \in Slots : OnOpen(s)
    \/ \E c \in ListenChannels, l \in ListenerIds : On(c, l)
    \/ \E c \in ListenChannels, l \in ListenerIds : Off(c, l)
    \/ \E f \in Frames : OnMessage(f)
    \/ Disconnect

DispatchSpec == WsInitAll /\ [][DispatchNext]_vars

(* ------------------------ claims: session store ------------------------ *)
\* a step that delivers snapshot u by a roomUpdate broadcast, a gameUpdate
\* broadcast or the result of a fallback poll
SnapshotArrives(u) ==
    \/ \E fresh \in BOOLEAN : HandleRoomUpdate(u, fresh)
    \/ \E fresh \in BOOLEAN : HandleGameUpdate(u, fresh)
    \/ PollResult(u)

\* C1: while the waiting-lobby intent flag is set, a snapshot arriving by a
\* roomUpdate, a gameUpdate or a poll result replaces the session only if its
\* status is 'waiting'; with any other status the session is left as it was.
C1_IntentDiscardsNonWaiting ==
    [][\A u \in StatusRooms :
         (isInWaitingLobby /\ SnapshotArrives(u) /\ u.status # "waiting")
            => (room' = room)]_vars

\* a step that applies a chatMessage or typingUpdate broadcast
ChatArrives ==
    \E u \in ServerRooms : HandleChatMessage(u) \/ HandleTypingUpdate(u)

\* C2: applying a chatMessage or typingUpdate broadcast leaves the session
\* status as it was immediately before the broadcast.
C2_ChatKeepsStatus ==
    [][ChatArrives => (Val(room').status = Val(room).status)]_vars

\* the fields of a session other than chat, gameChat and typing
OtherFields(m) ==
    IF m = None THEN None
    ELSE <<Val(m).room_code, Val(m).status, Val(m).players>>

\* C3: applying a chatMessage or typingUpdate broadcast changes only the chat,
\* gameChat and typing fields of the session and of the display snapshot.
C3_ChatChangesChatFieldsOnly ==
    [][ChatArrives =>
         (/\ OtherFields(room') = OtherFields(room)
          /\ OtherFields(displayRoom') = OtherFields(displayRoom))]_vars

\* a stale broadcast with status 'playing': a roomUpdate or a gameUpdate
StalePlaying ==
    \E u \in StatusRooms, fresh \in BOOLEAN :
       /\ u.status = "playing"
       /\ HandleRoomUpdate(u, fresh) \/ HandleGameUpdate(u, fresh)

\* the genuine reset: a 'waiting' snapshot as a roomUpdate broadcast or as the
\* result of resetToLobby
WaitingReset ==
    \E u \in StatusRooms :
       /\ u.status = "waiting"
       /\ (\E fresh \in BOOLEAN : HandleRoomUpdate(u, fresh)) \/ PlayAgainReset(u)

C4_Step ==
    /\ PlayAgainRequest =>
         (isInWaitingLobby' /\ room' = room)
    /\ (isInWaitingLobby /\ StalePlaying) =>
         (isInWaitingLobby' /\ room' = room)
    /\ (isInWaitingLobby /\ WaitingReset) =>
         (isInWaitingLobby' /\ Val(room').status = "waiting")

C21_SessionIsAServerSnapshot == room = None \/ Val(room) \in SentRooms

C22_Step ==
    /\ Quit => (room' = None /\ displayRoom' = None)
    /\ (room = None /\ room' # None) => (\E r \in StatusRooms : EnterRoom(r))

\* C22: leaving empties the session and the display snapshot, and an empty
\* session becomes present again only by a successful createRoom or joinRoom.
C22_EmptyUntilCreateOrJoin == [][C22_Step]_vars

\* a step in which handlePlayAgain returns
PlayAgainCompletes == playAgain # "idle" /\ playAgain' = "idle"

C23_Step ==
    PlayAgainCompletes =>
        \/ /\ room' # None
           /\ Val(room').status = "waiting"
           /\ isInWaitingLobby'
        \/ /\ room' = None
           /\ displayRoom' = None
           /\ ~isInWaitingLobby'

\* C23: when a 'play again' request completes, the session is present and
\* 'waiting' with the waiting-lobby intent set, or the session and the display
\* snapshot are empty with the intent cleared.
C23_PlayAgainOutcome == [][C23_Step]_vars

\* a genuine game start is observed: a gameStart broadcast, or a successful
\* startGame result
StartObserved ==
    \E u \in SentRooms : HandleGameStart(u, TRUE) \/ StartResult(u)

C24_Step ==
    (isInWaitingLobby /\ ~isInWaitingLobby' /\ room # None /\ room' # None) =>
        StartObserved

\* C24: while the session is present, the waiting-lobby intent flag is cleared
\* only by a step that observes a genuine game start.
C24_IntentClearedOnlyByStart == [][C24_Step]_vars

(* ------------------------ claims: game start --------------------------- *)
StartSucceeds == \E r \in StartRooms : StartResult(r)

CountdownTicks == \E i \in IntervalIds : CountdownTick(i)

C11_Step ==
    /\ StartSucceeds =>
         (Val(room').status = "playing" /\ countdown' = Some(CountdownStart))
    /\ (CountdownTicks /\ countdown # None) =>
         (countdown' = IF Val(countdown) = 1 THEN None
                       ELSE Some(Val(countdown) - 1))
    /\ (startCues' # None) => (Val(startCues') <= 1)

\* C11: a successful startGame of the host leaves the session 'playing' and
\* the countdown at 5; a countdown second takes the countdown down by one, to
\* null after the fifth; and the start cue is played at most once after a
\* click on start, whichever of the startGame response and the gameStart
\* broadcast comes first.
C11_StartCountsDownAndCuesOnce == [][C11_Step]_vars

LiveCountdowns == {i \in IntervalIds : intervals[i].alive}

\* C12: at most one countdown interval timer is alive, and it is the one in
\* countdownIntervalRef.
C12_OneCountdownTimer ==
    /\ Cardinality(LiveCountdowns) <= 1
    /\ \A i \in LiveCountdowns : countdownIntervalRef = i

\* C17: while the session is empty, after the user has left it, no poll
\* interval, no countdown interval, no frame of the game loop and no frame of
\* the render loop is scheduled.
C17_NothingScheduledAfterLeaving ==
    (room = None) =>
        /\ pollLive = {}
        /\ LiveCountdowns = {}
        /\ ~gameLoopRef
        /\ ~renderLoopRef

(* ------------------------ claims: render pacer ------------------------- *)
C18_Step ==
    \/ displayRoom' = None
    \/ displayRoom' = room'
    \/ /\ pendingRoomUpdate' = room'
       /\ displayRoom' = (IF room' # room THEN room ELSE displayRoom)

\* C18: after every step the display snapshot is null, or equal to the
\* session, or the session is in the pending buffer and the display snapshot
\* is the session value that preceded it (the session before the step when
\* the step changed the session, the display snapshot before the step otherwise).
C18_DisplayAtMostOneBehind == [][C18_Step]_vars

\* an authoritative update u arrives by a roomUpdate or gameUpdate broadcast
UpdateArrives(u) ==
    \E fresh \in BOOLEAN : HandleRoomUpdate(u, fresh) \/ HandleGameUpdate(u, fresh)

C19_Step ==
    /\ \A u \in StatusRooms :
         (/\ room # None /\ Val(room).status = "playing"
          /\ ~isInWaitingLobby
          /\ UpdateArrives(u)) =>
             (displayRoom' = Some(u) \/ pendingRoomUpdate' = Some(u))
    /\ RenderLoop => (displayRoom' = pendingRoomUpdate /\ pendingRoomUpdate' = None)
    /\ (pendingRoomUpdate' # pendingRoomUpdate /\ pendingRoomUpdate' # None) =>
         (\E u \in StatusRooms, fresh \in BOOLEAN :
            \/ pendingRoomUpdate' = Some(u) /\ UpdateArrives(u)
            \/ HandleGameStart(u, fresh))

\* C19: an update that arrives while playing (and is not discarded on the
\* waiting-lobby intent) is displayed at once or replaces whatever the single
\* pending buffer held; the buffer is changed by nothing but a later update
\* and a flush; and a flush displays the buffered update and empties the
\* buffer. So the flush that follows N updates displays the last of them.
C19_FlushShowsLastUpdate == [][C19_Step]_vars

\* an update is buffered while playing, behind a display snapshot that is older
C19_Witness ==
    /\ room # None /\ Val(room).status = "playing"
    /\ ~isInWaitingLobby
    /\ pendingRoomUpdate = room
    /\ displayRoom # None /\ displayRoom # room

(* ------------------------ claims: fallback poll ------------------------ *)
\* a step that issues a getRoom poll
PollIssued == polls' = polls + 1

C20_Step ==
    /\ PollIssued => (room # None /\ Val(room).status # "playing")
    /\ Cardinality(pollLive') <= 1
    /\ (room' = None \/ Val(room').status = "playing") => (pollLive' = {})

\* C20: a poll is issued only while a session is present and not 'playing';
\* at most one poll interval is scheduled; none is scheduled while the session
\* is absent or 'playing'.
C20_PollOnlyWhileNotPlaying == [][C20_Step]_vars

\* the session is 'playing' and the poll interval set before is cleared
C20_Witness ==
    /\ room # None /\ Val(room).status = "playing"
    /\ pollingRef # 0
    /\ pollLive = {}

(* ------------------------ claims: tick scheduler ----------------------- *)
\* a step that emits a tick-advance request
TickEmitted == ticksSent' = ticksSent + 1

\* C13: a tick-advance request is emitted a full tick interval or more after
\* the previous one of this client.
C13_TicksATickIntervalApart ==
    [][(TickEmitted /\ lastSentAt # None) =>
         (now - Val(lastSentAt) >= TICK_RATE)]_vars

\* two requests have been emitted
C13_Witness == ticksSent >= 2 /\ lastSentAt # None

\* C14: a tick-advance request is emitted only by the client whose playerId
\* is the host_id of the session.
C14_OnlyTheDriverTicks ==
    [][TickEmitted => (room # None /\ Val(room).host_id = MyId)]_vars

\* C15: no tick-advance request is emitted while the countdown is not null.
C15_NoTickDuringCountdown == [][TickEmitted => (countdown = None)]_vars

\* C16: a tick-advance request is emitted only when the session, as it is at
\* the emission, is present and 'playing'.
C16_TickOnlyWhilePlaying ==
    [][TickEmitted => (room # None /\ Val(room).status = "playing")]_vars

(* ------------------------ claims: transport client --------------------- *)
Sent == 1..(nextId - 1)

LiveSockets == {s \in Slots : sockets[s] \in {"connecting", "open"}}

\* a step in which a new WebSocket object is created
SocketCreated == \E s \in Slots : sockets[s] = "none" /\ sockets'[s] = "connecting"

\* a step that is the open event of a socket
OpenStep == \E s \in Slots : sockets[s] = "connecting" /\ sockets'[s] = "open"

\* a step that is the close event of a socket
CloseStep == \E s \in Slots : sockets[s] # "none" /\ sockets'[s] = "none"

\* C5: every command passed to send() is in the message queue or has been
\* written to an open socket: none leaves the queue without being transmitted.
C5_NoCommandDropped ==
    \A m \in Sent : m \in SeqToSet(messageQueue) \/ m \in SeqToSet(wire)

\* C6: when a connection opens, the queued commands are all transmitted, in
\* the order in which they were passed to send(), and the queue is empty, so
\* that every later command is transmitted after them.
C6_QueueFlushedInOrder ==
    [][OpenStep => (wire' = wire \o messageQueue /\ messageQueue' = <<>>)]_vars

\* C7: at any time at most one socket of the client is connecting or open.
C7_AtMostOneLiveSocket == Cardinality(LiveSockets) <= 1

C8_Step ==
    /\ (timers' > timers) =>
          (CloseStep /\ reconnectAttempts' = reconnectAttempts + 1)
    /\ (reconnectAttempts' # reconnectAttempts) =>
          (\/ OpenStep /\ reconnectAttempts' = 0
           \/ CloseStep /\ reconnectAttempts' = reconnectAttempts + 1
                        /\ timers' = timers + 1)
    /\ ("reconnectFailed" \in emitted') <=>
          (CloseStep /\ reconnectAttempts = maxReconnectAttempts)

\* C8: between two opens at most maxReconnectAttempts reconnects are
\* scheduled (each one counted by reconnectAttempts, which only an open
\* resets), and 'reconnectFailed' is emitted exactly by a close that finds
\* the budget used up.
C8_ReconnectCap ==
    /\ [](reconnectAttempts \in 0..maxReconnectAttempts)
    /\ [][C8_Step]_vars

\* C8 witness: a close has found the budget used up and emitted the signal
C8_Witness ==
    "reconnectFailed" \in emitted /\ reconnectAttempts = maxReconnectAttempts

\* C9: once 'reconnectFailed' has been emitted, no operation other than an
\* explicit connect() creates a socket or schedules a reconnect.
C9_NoSocketAfterGiveUp ==
    [][(gaveUp /\ ~Connect) => (~SocketCreated /\ timers' <= timers)]_vars

\* a step that schedules reconnect attempt n+1 right after attempt n, the
\* delay of attempt n being below the clamp
ConsecutiveAttempts ==
    /\ reconnectAttempts >= 1
    /\ reconnectAttempts' = reconnectAttempts + 1
    /\ delay < MaxDelayMs * Scale

\* C10 as stated: the delay of attempt n+1 is greater than that of attempt n
\* for every jitter, until the clamp.
C10_DelayStrictlyIncreases ==
    [][ConsecutiveAttempts => (delay' > delay)]_vars

\* C10 amended: the delay of attempt n+1 is greater than that of attempt n for
\* every jitter, until the clamp, in production mode (base 2000 ms) and, in
\* development mode (base 1000 ms), from attempt n = 3 on.
C10_DelayIncreasesWhenStepCoversJitter ==
    [][(ConsecutiveAttempts /\ (isProduction \/ reconnectAttempts >= 3))
         => (delay' > delay)]_vars

\* C10 witness: attempt 4 has been scheduled after attempt 3 in development
\* mode, and attempt 2 after attempt 1 in production mode
C10_Witness ==
    /\ timers > 0
    /\ delay < MaxDelayMs * Scale
    /\ \/ ~isProduction /\ reconnectAttempts = 4
       \/ isProduction /\ reconnectAttempts = 2

(* ------------------------ claims: keepalive ---------------------------- *)
\* C25: while the socket of the client is open, a keepalive interval is
\* scheduled.
C25_KeepaliveWhileOpen == WsIsOpen(sockets, ws) => pingInterval

\* the connection of the client is closed: the close event of its socket, or
\* disconnect()
ConnectionCloses ==
    \/ ws # 0 /\ sockets[ws] # "none" /\ sockets'[ws] = "none"
    \/ Disconnect

C26_Step ==
    /\ PongTimeout => (sockets'[ws] \notin {"connecting", "open"})
    /\ Pong => (sockets' = sockets)
    /\ (pongTimeout /\ ~pongTimeout') => (Pong \/ PongTimeout \/ ConnectionCloses)

\* C26: when the pong timeout of a probe fires the socket is force-closed; a
\* pong cancels the timeout and closes nothing; and the timeout of a probe is
\* cancelled by nothing but a pong or the close of the connection, so a probe
\* that is never acknowledged force-closes the socket.
C26_ProbeTimeoutForcesClose == [][C26_Step]_vars

\* ------------------------------------------------------------------------
\* claims: inbound dispatch

\* the channels the claim assigns to frame f that parses to an object
TaggedChannels(f) ==
    IF f.type \in FrameTypes THEN {f.type}
    ELSE IF f.responseId # 0 THEN {ResponseChannel(f.responseId), "response"}
    ELSE {"response"}

C27_Step ==
    \A f \in Frames :
        OnMessage(f) =>
            /\ (f.kind = "object" => emitted' = TaggedChannels(f))
            /\ (f.kind = "pong" => emitted' = {})

\* C27: a frame of one of the five broadcast types is emitted on that
\* type's channel only, a frame without a type on 'response:<id>' (when it
\* has a responseId) and on 'response', and 'pong' on no channel
C27_DispatchByTypeTag == [][C27_Step]_vars

\* the channels of frame f, a chat or typing frame being emitted only when it
\* carries a room
RoomedChannels(f) ==
    IF f.type \in {"chatMessage", "typingUpdate"} /\ ~f.room THEN {}
    ELSE TaggedChannels(f)

C27_AmendedStep ==
    \A f \in Frames :
        OnMessage(f) =>
            /\ (f.kind = "object" => emitted' = RoomedChannels(f))
            /\ (f.kind = "pong" => emitted' = {})

\* C27 (amended): as C27, except that a chatMessage or typingUpdate frame
\* is emitted on its channel only when it carries a room, and on no channel
\* otherwise
C27_DispatchByTypeTagWithRoom == [][C27_AmendedStep]_vars

C27_Witness == emitted = {"response:1", "response"}

Malformed(f) == f.kind \in {"garbage", "null", "scalar"}

\* the calls made for the latest frame that threw
Threw == {x \in delivered : x[2] \in Throwing}

C28_Step ==
    \A f \in Frames :
        OnMessage(f) =>
            /\ (Malformed(f) \/ Threw' # {} =>
                    UNCHANGED <<connected, messageQueue, reconnectAttempts,
                                listeners, sockets, ws>>)
            /\ delivered' =
                   {x \in ListenChannels \X ListenerIds :
                       /\ x[1] \in emitted'
                       /\ x[2] \in SeqToSet(listeners[x[1]])}

\* C28: a frame that does not parse, or a callback that throws, changes
\* nothing of the transport (connection, flag, queue, retry count,
\* callbacks), and every frame is delivered to all the callbacks registered
\* on its channels, those after a throwing one included
C28_FaultsAreContained == [][C28_Step]_vars

C28_Witness ==
    \E c \in ListenChannels :
        /\ Len(listeners[c]) = MaxListeners
        /\ listeners[c][1] \in Throwing
        /\ <<c, listeners[c][1]>> \in Threw
        /\ <<c, listeners[c][MaxListeners]>> \in delivered \ Threw

\* ------------------------------------------------------------------------
\* claims: direction input

C29_Step ==
    TickEmitted =>
        /\ directionQueue # None =>
              /\ Len(tickOut') = 2
              /\ tickOut'[1] = [action |-> "updateDirection",
                                direction |-> Val(directionQueue)]
              /\ tickOut'[2].action = "tick"
        /\ directionQueue = None =>
              /\ Len(tickOut') = 1
              /\ tickOut'[1].action = "tick"
        /\ directionQueue' = None

CommandFails ==
    \/ \E c \in Commands : CommandFailed(c)
    \/ \E thrown \in BOOLEAN : StartFailed(thrown)
    \/ PlayAgainResetFailed
    \/ PlayAgainGetRoomFailed

C30_Step == CommandFails => (error' # "" /\ room' = room)

\* C30: a failed result or an exception of a create, join, start, pause,
\* resume, reset-to-lobby, send-message, add-bot, remove-bot or toggle-ready
\* command sets the error message and leaves the session as it was
C30_FailuresSetTheError == [][C30_Step]_vars

\* ------------------------------------------------------------------------
\* claims: the start button

\* C31: onStart is called from the lobby only by the host, with two or more
\* participants, and with the ready flag true for every participant that is
\* neither the host nor a bot; the flags of the host and of bots do not count
C31_StartNeedsReadyGuests ==
    startTriggered =>
        /\ lobbyHost = MyId
        /\ Len(lobbyPlayers) >= 2
        /\ \A i \in 1..Len(lobbyPlayers) :
               (i # lobbyHost /\ ~lobbyPlayers[i].isBot) =>
                   lobbyPlayers[i].ready = "true"

C31_Witness ==
    /\ startTriggered
    /\ Len(lobbyPlayers) = MaxPlayers
    /\ lobbyPlayers[MyId].ready = "undefined"
    /\ \E i \in 1..Len(lobbyPlayers) :
           lobbyPlayers[i].isBot /\ lobbyPlayers[i].ready = "false"
    /\ \E i \in 1..Len(lobbyPlayers) :
           i # MyId /\ ~lobbyPlayers[i].isBot

\* ------------------------------------------------------------------------
\* claims: tick pace

\* the session is playing with no countdown and this client is the driver
Driving ==
    /\ room # None
    /\ Val(room).status = "playing"
    /\ countdown = None
    /\ Val(room).host_id = MyId

\* C32: while the session is playing with no countdown and this client
\* drives, a tick-advance request is emitted in every tick interval: no more
\* than one interval passes after a request without the next one, whatever
\* session updates restart the loop in between
C32_ATickInEveryInterval ==
    (Driving /\ lastSentAt # None /\ ticksSent < MaxTicks) =>
        now - Val(lastSentAt) <= TICK_RATE

\* ------------------------------------------------------------------------
\* claims: disconnect

C33_Step ==
    \A s \in Slots :
        (ws = 0 /\ sockets[s] = "closing" /\ OnClose(s)) =>
            (timers' = timers /\ reconnectAttempts' = reconnectAttempts)

\* C33: after disconnect() the close event of the socket that it closed
\* schedules no reconnect, so that no socket is created until connect() or
\* send() is called
C33_NoReconnectAfterDisconnect == [][C33_Step]_vars

\* ------------------------------------------------------------------------
\* claims: the connected flag

\* C34: the connected flag is true exactly when the socket that the client
\* holds is open
C34_ConnectedIffCurrentSocketOpen == connected <=> WsIsOpen(sockets, ws)

\* ------------------------------------------------------------------------
\* claims: the participant identifier

\* C35: the commands transmitted carry one and the same participant
\* identifier, those queued before a connection was opened included
C35_OneIdentifierOnAllCommands ==
    \A i, j \in SeqToSet(wire) : stamps[i] = stamps[j]

\* ------------------------------------------------------------------------
\* claims: leaving a session

\* C36: whenever the session is empty the waiting-lobby intent flag is false
C36_IntentFlagEndsWithSession == room = None => ~isInWaitingLobby

\* C37: whenever the session is empty the countdown is null
C37_CountdownEndsWithSession == room = None => countdown = None

\* ------------------------------------------------------------------------
\* claims: the start guard

\* no start is awaited and no countdown is displayed
StartSettled == starts = 0 /\ countdown = None

\* C38: at most one startGame command is in flight, and the start guard is
\* released once the start has settled: after the countdown has ended, the
\* start has failed or the session has been left
C38_OneStartAndGuardReleased ==
    /\ starts <= 1
    /\ (StartSettled \/ room = None) => ~isStartingGame

\* ------------------------------------------------------------------------
\* claims: the fallback poll and the display buffer

\* pollRoom resumes with the answer to its getRoom
PollAnswered == polls' = polls - 1

C39_Step ==
    (PollAnswered /\ room # None /\ Val(room).status = "playing") =>
        room' = room

\* C39: the answer to a fallback poll is not applied to a session whose
\* status is 'playing'
C39_PollNotAppliedWhilePlaying == [][C39_Step]_vars

\* C40: a snapshot in the pending display buffer is eventually flushed to the
\* display or replaced by a newer one
C40_BufferedSnapshotIsFlushed ==
    \A u \in ServerRooms :
        (pendingRoomUpdate = Some(u)) ~> (pendingRoomUpdate # Some(u))

====
